---- MODULE Spec2Model ----
(***************************************************************************)
(* Model of src/app.py: a Streamlit script that is re-executed from top to *)
(* bottom on every user interaction.  The only state that survives a run   *)
(* is st.session_state.chat_history; widget values are what the user left  *)
(* in the page.  Text is modelled as a sequence of characters so that      *)
(* str.strip() and str.startswith() are computed, not assumed.             *)
(***************************************************************************)
EXTENDS Integers, Sequences, FiniteSets, TLC

VARIABLES
    chat_history,   \* st.session_state.chat_history: sequence of <<user_text, bot_text>>
    audio_file,     \* st.file_uploader value: TRUE when a clip is uploaded, FALSE for None
    typed,          \* st.text_input value
    lang_choice,    \* st.selectbox value
    run,            \* value of the "Ask Mindfully" button in the current script run
    clear,          \* value of the "Clear Chat" button in the current script run
    pc,             \* position of the script run ("idle": no run in progress)
    user_text,      \* local user_text
    bot_text,       \* local bot_text
    transcript,     \* value returned by transcribe_with_whisper in this run
    tmp_exists,     \* os.path.exists(tmp_path) for the temp file of this run
    remove_failed,  \* os.remove(tmp_path) raised and was swallowed
    failed,         \* adapter whose exception ended the run, or "none"
    warned,         \* st.warning was shown in this run
    calls,          \* adapter invocations and log appends of this interaction, in order
    rendered,       \* turns drawn by the chat display loop of this run
    trigger,        \* what the user pressed to start this interaction
    history0        \* chat_history when this interaction started

vars == <<chat_history, audio_file, typed, lang_choice, run, clear, pc, user_text,
          bot_text, transcript, tmp_exists, remove_failed, failed, warned, calls,
          rendered, trigger, history0>>

----------------------------------------------------------------------------
(* Bounds *)
MaxLen == 2            \* longest typed text
MaxTranscriptLen == 2  \* longest raw transcription text
MaxReplyLen == 1       \* longest raw completion text
MaxLog == 2            \* most turns held by the log

Chars == {"a", " "}

RECURSIVE TextsUpTo(_)
TextsUpTo(n) ==
    IF n = 0 THEN {<<>>}
    ELSE LET S == TextsUpTo(n - 1)
         IN S \cup {Append(s, c) : s \in {t \in S : Len(t) = n - 1}, c \in Chars}

TypedInputs == TextsUpTo(MaxLen)
RawTranscripts == TextsUpTo(MaxTranscriptLen)
RawReplies == TextsUpTo(MaxReplyLen)

English == <<"E","n","g","l","i","s","h"," ","(","I","n","d","i","a",")">>
Hindi == <<"H","i","n","d","i">>
LangOptions == {English, Hindi}

----------------------------------------------------------------------------
(* str methods *)
RECURSIVE LStrip(_)
LStrip(s) == IF s # <<>> /\ Head(s) = " " THEN LStrip(Tail(s)) ELSE s

RECURSIVE RStrip(_)
RStrip(s) == IF s # <<>> /\ s[Len(s)] = " " THEN RStrip(SubSeq(s, 1, Len(s) - 1)) ELSE s

Strip(s) == RStrip(LStrip(s))

StartsWith(s, p) == Len(s) >= Len(p) /\ SubSeq(s, 1, Len(p)) = p

IsPrefix(s, t) == Len(s) <= Len(t) /\ SubSeq(t, 1, Len(s)) = s

----------------------------------------------------------------------------
(* Pieces of the script *)

\* "if not audio_file and not typed"
NoInput(a, t) == ~a /\ t = <<>>

\* st.stop() after the warning ends the run
PcAfterWarningMut == "input"
PcAfterWarning == "idle"

\* user_text = typed.strip() if typed else ""
InitialUserTextMut(t) == t
InitialUserText(t) == IF t # <<>> THEN Strip(t) ELSE <<>>

\* "if audio_file:" selects the listening block
PcAfterInputMut(a) == "thinking"
PcAfterInput(a) == IF a THEN "listening" ELSE "thinking"

\* user_text = transcribe_with_whisper(tmp_path)
UserTextAfterTranscribeMut(ut, tr) == IF ut # <<>> THEN ut ELSE tr
UserTextAfterTranscribe(ut, tr) == tr

\* try/finally around the transcription: os.remove runs on both exits,
\* and its own failure is swallowed by "except Exception: pass"
TmpAfterTranscribeMut(exists, raised, removeOk) == exists /\ (raised \/ ~removeOk)
TmpAfterTranscribe(exists, raised, removeOk) == exists /\ ~removeOk

\* an exception of transcribe_with_whisper leaves the finally block and ends the run
PcAfterTranscribeErrorMut == "thinking"
PcAfterTranscribeError == "idle"

\* st.session_state.chat_history.append((user_text, bot_text))
AppendTurnMut(h, u, b) == <<<<u, b>>>> \o h
AppendTurn(h, u, b) == Append(h, <<u, b>>)

\* st.session_state.chat_history = []
ClearedHistoryMut(h) == IF h = <<>> THEN h ELSE SubSeq(h, 1, Len(h) - 1)
ClearedHistory(h) == <<>>

\* lang_code chosen by the voice output block
LangCode(choice) == IF StartsWith(choice, Hindi) THEN "hi" ELSE "en"

\* tld = "co.in" if (lang_code == "en" and indian_accent) else "com"
TldMut(lang_code, indian_accent) == IF lang_code = "en" \/ indian_accent THEN "co.in" ELSE "com"
Tld(lang_code, indian_accent) == IF lang_code = "en" /\ indian_accent THEN "co.in" ELSE "com"

Call(op, text) == [op |-> op, text |-> text, lang |-> "", accent |-> FALSE, tld |-> ""]

\* synthesize_gtts(last_bot_text, lang_code=..., indian_accent=True (given or default))
SynthCall(text, choice) ==
    [op |-> "synth", text |-> text, lang |-> LangCode(choice), accent |-> TRUE,
     tld |-> Tld(LangCode(choice), TRUE)]

----------------------------------------------------------------------------
Init ==
    /\ chat_history = <<>>
    /\ audio_file = FALSE
    /\ typed = <<>>
    /\ lang_choice = English
    /\ run = FALSE
    /\ clear = FALSE
    /\ pc = "idle"
    /\ user_text = <<>>
    /\ bot_text = <<>>
    /\ transcript = <<>>
    /\ tmp_exists = FALSE
    /\ remove_failed = FALSE
    /\ failed = "none"
    /\ warned = FALSE
    /\ calls = <<>>
    /\ rendered = <<>>
    /\ trigger = "none"
    /\ history0 = <<>>

\* The user edits the widgets and causes a script run; at most one button is pressed.
Interact ==
    /\ pc = "idle"
    /\ \E t \in TypedInputs, a \in BOOLEAN, l \in LangOptions, b \in {"none", "ask", "clear"} :
        /\ (b = "ask" /\ ~NoInput(a, t)) => Len(chat_history) < MaxLog
        /\ typed' = t
        /\ audio_file' = a
        /\ lang_choice' = l
        /\ run' = (b = "ask")
        /\ clear' = (b = "clear")
        /\ trigger' = b
    /\ pc' = "script"
    /\ user_text' = <<>>
    /\ bot_text' = <<>>
    /\ transcript' = <<>>
    /\ tmp_exists' = FALSE
    /\ remove_failed' = FALSE
    /\ failed' = "none"
    /\ warned' = FALSE
    /\ calls' = <<>>
    /\ rendered' = <<>>
    /\ history0' = chat_history
    /\ UNCHANGED chat_history

\* if st.button("Clear Chat"): chat_history = []; st.experimental_rerun()
ClearChat ==
    /\ pc = "script"
    /\ clear
    /\ chat_history' = ClearedHistory(chat_history)
    /\ run' = FALSE
    /\ clear' = FALSE
    /\ pc' = "script"
    /\ UNCHANGED <<audio_file, typed, lang_choice, user_text, bot_text, transcript,
                   tmp_exists, remove_failed, failed, warned, calls, rendered,
                   trigger, history0>>

\* "if run:" is false: the script goes straight to the chat display
NoAsk ==
    /\ pc = "script"
    /\ ~clear
    /\ ~run
    /\ pc' = "render"
    /\ UNCHANGED <<chat_history, audio_file, typed, lang_choice, run, clear, user_text,
                   bot_text, transcript, tmp_exists, remove_failed, failed, warned,
                   calls, rendered, trigger, history0>>

\* "if run:" is true: test for missing input
AskPressed ==
    /\ pc = "script"
    /\ ~clear
    /\ run
    /\ pc' = IF NoInput(audio_file, typed) THEN "warn" ELSE "input"
    /\ UNCHANGED <<chat_history, audio_file, typed, lang_choice, run, clear, user_text,
                   bot_text, transcript, tmp_exists, remove_failed, failed, warned,
                   calls, rendered, trigger, history0>>

\* st.warning(...); st.stop()
Warn ==
    /\ pc = "warn"
    /\ warned' = TRUE
    /\ pc' = PcAfterWarning
    /\ UNCHANGED <<chat_history, audio_file, typed, lang_choice, run, clear, user_text,
                   bot_text, transcript, tmp_exists, remove_failed, failed, calls,
                   rendered, trigger, history0>>

\* user_text = ...; with an upload, the clip is written to a NamedTemporaryFile(delete=False)
PrepareInput ==
    /\ pc = "input"
    /\ user_text' = InitialUserText(typed)
    /\ tmp_exists' = audio_file
    /\ pc' = PcAfterInput(audio_file)
    /\ UNCHANGED <<chat_history, audio_file, typed, lang_choice, run, clear, bot_text,
                   transcript, remove_failed, failed, warned, calls, rendered, trigger,
                   history0>>

\* transcribe_with_whisper returns tr.text.strip(); finally removes the temp file
TranscribeOk ==
    /\ pc = "listening"
    /\ \E raw \in RawTranscripts, removeOk \in BOOLEAN :
        /\ transcript' = Strip(raw)
        /\ user_text' = UserTextAfterTranscribe(user_text, Strip(raw))
        /\ tmp_exists' = TmpAfterTranscribe(tmp_exists, FALSE, removeOk)
        /\ remove_failed' = ~removeOk
    /\ calls' = Append(calls, Call("transcribe", <<>>))
    /\ pc' = "thinking"
    /\ UNCHANGED <<chat_history, audio_file, typed, lang_choice, run, clear, bot_text,
                   failed, warned, rendered, trigger, history0>>

\* transcribe_with_whisper raises; finally removes the temp file; the run ends
TranscribeFail ==
    /\ pc = "listening"
    /\ \E removeOk \in BOOLEAN :
        /\ tmp_exists' = TmpAfterTranscribe(tmp_exists, TRUE, removeOk)
        /\ remove_failed' = ~removeOk
    /\ calls' = Append(calls, Call("transcribe", <<>>))
    /\ failed' = "transcribe"
    /\ pc' = PcAfterTranscribeError
    /\ UNCHANGED <<chat_history, audio_file, typed, lang_choice, run, clear, user_text,
                   bot_text, transcript, warned, rendered, trigger, history0>>

\* bot_text = chat_response(user_text), which returns content.strip()
ChatOk ==
    /\ pc = "thinking"
    /\ \E raw \in RawReplies : bot_text' = Strip(raw)
    /\ calls' = Append(calls, Call("chat", user_text))
    /\ pc' = "append"
    /\ UNCHANGED <<chat_history, audio_file, typed, lang_choice, run, clear, user_text,
                   transcript, tmp_exists, remove_failed, failed, warned, rendered,
                   trigger, history0>>

\* chat_response raises; the run ends
ChatFail ==
    /\ pc = "thinking"
    /\ calls' = Append(calls, Call("chat", user_text))
    /\ failed' = "chat"
    /\ pc' = "idle"
    /\ UNCHANGED <<chat_history, audio_file, typed, lang_choice, run, clear, user_text,
                   bot_text, transcript, tmp_exists, remove_failed, warned, rendered,
                   trigger, history0>>

\* st.session_state.chat_history.append((user_text, bot_text))
AppendStep ==
    /\ pc = "append"
    /\ chat_history' = AppendTurn(chat_history, user_text, bot_text)
    /\ calls' = Append(calls, Call("append", <<>>))
    /\ pc' = "render"
    /\ UNCHANGED <<audio_file, typed, lang_choice, run, clear, user_text, bot_text,
                   transcript, tmp_exists, remove_failed, failed, warned, rendered,
                   trigger, history0>>

\* for user_msg, bot_msg in chat_history: draw the two bubbles
Render ==
    /\ pc = "render"
    /\ rendered' = chat_history
    /\ pc' = "voice"
    /\ UNCHANGED <<chat_history, audio_file, typed, lang_choice, run, clear, user_text,
                   bot_text, transcript, tmp_exists, remove_failed, failed, warned,
                   calls, trigger, history0>>

\* "if st.session_state.chat_history:" is false
NoVoice ==
    /\ pc = "voice"
    /\ chat_history = <<>>
    /\ pc' = "idle"
    /\ UNCHANGED <<chat_history, audio_file, typed, lang_choice, run, clear, user_text,
                   bot_text, transcript, tmp_exists, remove_failed, failed, warned,
                   calls, rendered, trigger, history0>>

\* synthesize_gtts on the reply of the last turn; st.audio plays it
SynthOk ==
    /\ pc = "voice"
    /\ chat_history # <<>>
    /\ calls' = Append(calls, SynthCall(chat_history[Len(chat_history)][2], lang_choice))
    /\ pc' = "idle"
    /\ UNCHANGED <<chat_history, audio_file, typed, lang_choice, run, clear, user_text,
                   bot_text, transcript, tmp_exists, remove_failed, failed, warned,
                   rendered, trigger, history0>>

\* synthesize_gtts raises; the run ends
SynthFail ==
    /\ pc = "voice"
    /\ chat_history # <<>>
    /\ calls' = Append(calls, SynthCall(chat_history[Len(chat_history)][2], lang_choice))
    /\ failed' = "synth"
    /\ pc' = "idle"
    /\ UNCHANGED <<chat_history, audio_file, typed, lang_choice, run, clear, user_text,
                   bot_text, transcript, tmp_exists, remove_failed, warned, rendered,
                   trigger, history0>>

Next ==
    \/ Interact
    \/ ClearChat
    \/ NoAsk
    \/ AskPressed
    \/ Warn
    \/ PrepareInput
    \/ TranscribeOk
    \/ TranscribeFail
    \/ ChatOk
    \/ ChatFail
    \/ AppendStep
    \/ Render
    \/ NoVoice
    \/ SynthOk
    \/ SynthFail

Spec == Init /\ [][Next]_vars

----------------------------------------------------------------------------
(* Properties *)

Called(op) == \E i \in 1..Len(calls) : calls[i].op = op

Ops == [i \in 1..Len(calls) |-> calls[i].op]

AppendDone == Called("append")

TypedOnlyAsk == trigger = "ask" /\ ~audio_file /\ typed # <<>>

\* C1 (as stated): after an ask cycle with non-empty typed input and completion
\* reply T, the log is the previous log plus the one turn (input, T).
C1_Original ==
    (TypedOnlyAsk /\ AppendDone) => chat_history = Append(history0, <<typed, bot_text>>)

\* C1 (amended): after an ask cycle with non-empty typed input, no upload and
\* completion reply T, the log is the previous log plus the one turn
\* (input stripped of surrounding whitespace, T).
C1_Amended ==
    (TypedOnlyAsk /\ AppendDone) => chat_history = Append(history0, <<Strip(typed), bot_text>>)

C1_Witness ==
    /\ TypedOnlyAsk /\ AppendDone /\ pc = "idle"
    /\ history0 # <<>>
    /\ Strip(typed) # typed
    /\ Strip(typed) # <<>>

Spoken == Called("synth") /\ failed # "synth"

\* C2 (as stated): when any adapter call fails in an ask cycle, the log equals
\* the log before the cycle and no speech was synthesized.
C2_Original ==
    (trigger = "ask" /\ failed # "none") => (chat_history = history0 /\ ~Spoken)

\* C2 (amended): when the transcription or the completion adapter fails in an
\* ask cycle, the run ends there, the log equals the log before the cycle and
\* the synthesis adapter is not invoked.
C2_Amended ==
    (trigger = "ask" /\ failed \in {"transcribe", "chat"}) =>
        (pc = "idle" /\ chat_history = history0 /\ ~Called("append") /\ ~Called("synth"))

C2_Witness ==
    trigger = "ask" /\ failed = "transcribe" /\ pc = "idle" /\ history0 # <<>> /\ typed # <<>>

\* C3: an ask press with neither upload nor typed text invokes no adapter and
\* leaves the log as it was.
C3_NoInputNoEffect ==
    (trigger = "ask" /\ NoInput(audio_file, typed)) => (calls = <<>> /\ chat_history = history0)

C3_Witness ==
    trigger = "ask" /\ NoInput(audio_file, typed) /\ warned /\ pc = "idle" /\ chat_history # <<>>

\* C4: every step other than the clear handler leaves the old log as a prefix
\* of the new log, so only the clear handler can shorten or alter it.
C4_AppendOnly ==
    [][(pc = "script" /\ clear) \/ IsPrefix(chat_history, chat_history')]_vars

C4_Witness ==
    AppendDone /\ history0 # <<>> /\ Len(chat_history) = Len(history0) + 1 /\ pc = "idle"

\* C5: once the clear handler has run the log is empty, whatever it held, and
\* the chat display of the rerun draws no turn.
C5_ClearEmpties ==
    (trigger = "clear" /\ ~clear) =>
        (chat_history = <<>> /\ (pc \in {"voice", "idle"} => rendered = <<>>))

C5_Witness ==
    trigger = "clear" /\ ~clear /\ pc = "idle" /\ Len(history0) >= 2

\* C6 (as stated): once the transcription step has been left the temp file of
\* the upload no longer exists.
C6_Original ==
    (pc # "listening") => ~tmp_exists

\* C6 (amended): once the transcription adapter has returned or raised, the
\* temp file no longer exists unless os.remove itself failed (which is swallowed).
C6_Amended ==
    (Called("transcribe") /\ ~remove_failed) => ~tmp_exists

C6_Witness ==
    Called("transcribe") /\ failed = "transcribe" /\ ~remove_failed /\ ~tmp_exists /\ pc = "idle"

Expected ==
    IF audio_file THEN <<"transcribe", "chat", "append", "synth">>
    ELSE <<"chat", "append", "synth">>

\* C7: in an ask cycle the calls made so far are always an initial part of
\* transcribe (only with an upload), chat, append, synth, and a cycle that ends
\* without failure or warning has made exactly that sequence; the listening
\* position is only taken with an upload.
C7_Order ==
    trigger = "ask" =>
        /\ IsPrefix(Ops, Expected)
        /\ (pc = "listening" => audio_file)
        /\ (pc = "thinking" => (Called("transcribe") <=> audio_file))
        /\ (pc = "idle" /\ failed = "none" /\ ~warned => Ops = Expected)

C7_Witness ==
    trigger = "ask" /\ audio_file /\ pc = "idle" /\ failed = "none" /\ Len(calls) = 4

\* C8: every invocation of chat_response is given non-empty user text.
C8_NonEmptyUserText ==
    \A i \in 1..Len(calls) : calls[i].op = "chat" => calls[i].text # <<>>

\* C9: every synthesis call made under the Hindi selection has language code hi
\* and the generic variant; under any other selection it has code en, the India
\* flag set and the India variant; the India variant goes with en plus flag only.
C9_Locale ==
    \A i \in 1..Len(calls) : calls[i].op = "synth" =>
        LET c == calls[i] IN
        /\ (lang_choice = Hindi => c.lang = "hi" /\ c.tld = "com")
        /\ (lang_choice # Hindi => c.lang = "en" /\ c.accent /\ c.tld = "co.in")
        /\ (c.tld = "co.in" <=> (c.lang = "en" /\ c.accent))

C9_Witness ==
    lang_choice = Hindi /\ Called("synth") /\ failed = "none" /\ pc = "idle"

\* C10: in an ask cycle with both an upload and non-empty typed text, the text
\* given to chat_response and the user_text of the appended turn are the transcript.
C10_TranscriptWins ==
    (trigger = "ask" /\ audio_file /\ typed # <<>> /\ AppendDone) =>
        /\ \A i \in 1..Len(calls) : calls[i].op = "chat" => calls[i].text = transcript
        /\ chat_history = Append(history0, <<transcript, bot_text>>)

C10_Witness ==
    /\ trigger = "ask" /\ audio_file /\ AppendDone /\ pc = "idle"
    /\ Strip(typed) # <<>>
    /\ Strip(typed) # transcript
    /\ chat_history[Len(chat_history)][1] = transcript

====
